---- MODULE Spec2Model ----
(***************************************************************************)
(* Transclusion Toggler (src/src/main.ts, second plugin class, lines      *)
(* 181-472): toggling the "!" embed marker on [[wikilink]] tokens of an   *)
(* editor buffer.                                                          *)
(*                                                                         *)
(* Text is a sequence of one-character strings.  Offsets (ch, startCh,    *)
(* endCh) are 0-based as in the source; a line s has its character at     *)
(* offset i in s[i + 1].                                                   *)
(***************************************************************************)
EXTENDS Integers, Sequences, FiniteSets, TLC

VARIABLES
  buf,      \* the editor buffer: a non-empty sequence of lines
  pc,       \* "done" while the record of the last command is kept, else "idle"
  prevBuf,  \* the buffer the last command started from
  op,       \* the last command and the selection endpoints it read
  calls,    \* the replaceRange calls the last command issued, in order
  older,    \* the command that ran right before the last one, if any
  tok,      \* token text under repeated parse/toggle
  tok0,     \* the token text the repetition started from
  n         \* number of parse/toggle steps applied to tok0

vars == <<buf, pc, prevBuf, op, calls, older, tok, tok0, n>>

----------------------------------------------------------------------------
(* Bounds of the model *)

MaxLines == 3
MaxPieces == 3
MaxTokens == 4
MaxPathLen == 2
MaxToggles == 2

----------------------------------------------------------------------------
(* Program constants *)

NL == "\n"
\* Number.MAX_SAFE_INTEGER is 2^53 - 1; it is only ever compared with
\* character offsets, so the largest 32-bit integer stands for it here.
MAX_SAFE_INTEGER == 2147483647

NoMatch == -1
Null == [null |-> TRUE]

----------------------------------------------------------------------------
(* JavaScript string primitives used by the source *)

Min(a, b) == IF a < b THEN a ELSE b
Max(a, b) == IF a > b THEN a ELSE b

Clamp(i, len) == Min(Max(i, 0), len)

\* String.prototype.substring(from, to): both clamped to [0, length], swapped
\* when from > to.
Substring(s, from, to) ==
  LET f == Clamp(from, Len(s))
      t == Clamp(to, Len(s))
  IN SubSeq(s, Min(f, t) + 1, Max(f, t))

\* String.prototype.substring(from): to the end of the string.
SubstringFrom(s, from) == Substring(s, from, Len(s))

\* String.prototype.slice(b, e): negative indices count from the end, empty
\* when the start is not before the end.
Slice(s, b, e) ==
  LET f == IF b < 0 THEN Max(Len(s) + b, 0) ELSE Min(b, Len(s))
      t == IF e < 0 THEN Max(Len(s) + e, 0) ELSE Min(e, Len(s))
  IN IF f >= t THEN <<>> ELSE SubSeq(s, f + 1, t)

StartsWith(s, c) == Len(s) >= 1 /\ s[1] = c

\* Array.prototype.reverse
Reverse(s) == [i \in 1..Len(s) |-> s[Len(s) + 1 - i]]

\* Array.prototype.join('\n')
RECURSIVE Join(_)
Join(ls) ==
  IF Len(ls) = 0 THEN <<>>
  ELSE IF Len(ls) = 1 THEN ls[1]
  ELSE ls[1] \o <<NL>> \o Join(Tail(ls))

\* String.prototype.split('\n'): always at least one (possibly empty) line.
RECURSIVE SplitFrom(_, _, _)
SplitFrom(text, i, cur) ==
  IF i > Len(text) THEN <<cur>>
  ELSE IF text[i] = NL THEN <<cur>> \o SplitFrom(text, i + 1, <<>>)
  ELSE SplitFrom(text, i + 1, Append(cur, text[i]))

Split(text) == SplitFrom(text, 1, <<>>)

----------------------------------------------------------------------------
(* The token pattern /!?\[\[[^\]]+\]\]/g *)

CharAt(s, i) == IF i >= 0 /\ i < Len(s) THEN s[i + 1] ELSE "<eos>"

\* [^\]]+ is greedy and cannot consume "]": the end of the maximal run of
\* characters other than "]" that starts at offset j.
RECURSIVE RunEnd(_, _)
RunEnd(s, j) ==
  IF j >= Len(s) \/ s[j + 1] = "]" THEN j ELSE RunEnd(s, j + 1)

\* \[\[[^\]]+\]\] anchored at offset p: the end offset of the match, or NoMatch.
BracketMatchAt(s, p) ==
  IF CharAt(s, p) = "[" /\ CharAt(s, p + 1) = "["
  THEN LET r == RunEnd(s, p + 2)
       IN IF r > p + 2 /\ CharAt(s, r) = "]" /\ CharAt(s, r + 1) = "]"
          THEN r + 2 ELSE NoMatch
  ELSE NoMatch

\* The whole pattern anchored at offset i: "!?" first tries to take the "!",
\* and backtracks to the empty alternative when the rest fails.
MatchAt(s, i) ==
  IF CharAt(s, i) = "!" /\ BracketMatchAt(s, i + 1) # NoMatch
  THEN BracketMatchAt(s, i + 1)
  ELSE BracketMatchAt(s, i)

----------------------------------------------------------------------------
(* Token parser and toggle transform *)

\* parseWikiLink cutting two leading characters whether or not there is a marker.
MutParseWikiLink(fullText, startCh, endCh) ==
  [fullText |-> fullText,
   hasTransclusion |-> StartsWith(fullText, "!"),
   path |-> Slice(fullText, 2, -2),
   startLine |-> 0,
   startCh |-> startCh,
   endCh |-> endCh]

parseWikiLink(fullText, startCh, endCh) ==
  LET hasTransclusion == StartsWith(fullText, "!")
  IN [fullText |-> fullText,
      hasTransclusion |-> hasTransclusion,
      path |-> Slice(fullText, IF hasTransclusion THEN 3 ELSE 2, -2),
      startLine |-> 0,
      startCh |-> startCh,
      endCh |-> endCh]

\* toggleLink that never writes the marker.
MutToggleLink(link) == <<"[", "[">> \o link.path \o <<"]", "]">>

toggleLink(link) ==
  IF link.hasTransclusion
  THEN <<"[", "[">> \o link.path \o <<"]", "]">>
  ELSE <<"!", "[", "[">> \o link.path \o <<"]", "]">>

----------------------------------------------------------------------------
(* Line scanner *)

\* The exec loop of findAllLinksInLine with lastIndex = i.
RECURSIVE ScanAllFrom(_, _)
ScanAllFrom(line, i) ==
  IF i >= Len(line) THEN <<>>
  ELSE LET e == MatchAt(line, i)
       IN IF e = NoMatch THEN ScanAllFrom(line, i + 1)
          ELSE <<parseWikiLink(Substring(line, i, e), i, e)>>
               \o ScanAllFrom(line, e)

findAllLinksInLine(line) == ScanAllFrom(line, 0)

\* The exec loop of findLinkAtCursor with lastIndex = i.
RECURSIVE ScanCursorFrom(_, _, _)
ScanCursorFrom(line, cursorCh, i) ==
  IF i >= Len(line) THEN Null
  ELSE LET e == MatchAt(line, i)
       IN IF e = NoMatch THEN ScanCursorFrom(line, cursorCh, i + 1)
          ELSE IF cursorCh >= i /\ cursorCh <= e
               THEN parseWikiLink(Substring(line, i, e), i, e)
               ELSE ScanCursorFrom(line, cursorCh, e)

\* findLinkAtCursor with a half-open hit test (cursorCh < endCh).
RECURSIVE MutScanCursorFrom(_, _, _)
MutScanCursorFrom(line, cursorCh, i) ==
  IF i >= Len(line) THEN Null
  ELSE LET e == MatchAt(line, i)
       IN IF e = NoMatch THEN MutScanCursorFrom(line, cursorCh, i + 1)
          ELSE IF cursorCh >= i /\ cursorCh < e
               THEN parseWikiLink(Substring(line, i, e), i, e)
               ELSE MutScanCursorFrom(line, cursorCh, e)

MutFindLinkAtCursor(line, cursorCh) == MutScanCursorFrom(line, cursorCh, 0)

findLinkAtCursor(line, cursorCh) == ScanCursorFrom(line, cursorCh, 0)

----------------------------------------------------------------------------
(* The host editor surface (Editor of the obsidian API) as the source uses it *)

Pos(l, c) == [line |-> l, ch |-> c]

getValue(b) == Join(b)

getLine(b, i) == b[i + 1]

lastLine(b) == Len(b) - 1

\* Offset of a position in getValue(b).
RECURSIVE LineStart(_, _)
LineStart(b, l) == IF l = 0 THEN 0 ELSE LineStart(b, l - 1) + Len(b[l]) + 1

Offset(b, p) == LineStart(b, p.line) + Min(p.ch, Len(b[p.line + 1]))

\* The positions a cursor or a selection endpoint can take in buffer b.
Positions(b) ==
  UNION {{Pos(l, c) : c \in 0..Len(b[l + 1])} : l \in 0..(Len(b) - 1)}

\* getSelection(): the text between the two endpoints.
getSelection(b, anchor, head) ==
  Substring(getValue(b), Offset(b, anchor), Offset(b, head))

\* The text a replaceRange(text, from, to) call finds in [from, to).
RangeText(b, from, to) ==
  Substring(getValue(b), Offset(b, from), Offset(b, to))

\* replaceRange(text, from, to): one edit of the live buffer.
replaceRange(b, text, from, to) ==
  Split(Substring(getValue(b), 0, Offset(b, from)) \o text
        \o SubstringFrom(getValue(b), Offset(b, to)))

\* One replaceRange call as it is observed on the live buffer b.
Call(b, text, from, to) ==
  [text |-> text, from |-> from, to |-> to, was |-> RangeText(b, from, to)]

----------------------------------------------------------------------------
(* toggleLinksInSelection *)

\* The filter predicate of selectedLinks for a link of line lineIndex.
InSelection(link, lineIndex, startLine, endLine, startCh, endCh) ==
  IF lineIndex = startLine /\ lineIndex = endLine
  THEN link.startCh >= startCh /\ link.endCh <= endCh
  ELSE IF lineIndex = startLine THEN link.startCh >= startCh
  ELSE IF lineIndex = endLine THEN link.endCh <= endCh
  ELSE TRUE

SelStartLine(anchor, head) == Min(anchor.line, head.line)
SelEndLine(anchor, head) == Max(anchor.line, head.line)

SelStartCh(anchor, head) ==
  IF anchor.line < head.line THEN anchor.ch ELSE Min(anchor.ch, head.ch)

SelEndCh(anchor, head) ==
  IF anchor.line < head.line THEN MAX_SAFE_INTEGER ELSE Max(anchor.ch, head.ch)

\* LineReplacements without the reverse: leftmost link first.
MutLineReplacements(line, lineIndex, anchor, head) ==
  IF lineIndex < SelStartLine(anchor, head) \/ lineIndex > SelEndLine(anchor, head)
  THEN <<>>
  ELSE LET links == findAllLinksInLine(line)
           selectedLinks ==
             SelectSeq(links, LAMBDA link :
               InSelection(link, lineIndex,
                           SelStartLine(anchor, head), SelEndLine(anchor, head),
                           SelStartCh(anchor, head), SelEndCh(anchor, head)))
       IN [k \in 1..Len(selectedLinks) |->
             [from |-> Pos(lineIndex, selectedLinks[k].startCh),
              to |-> Pos(lineIndex, selectedLinks[k].endCh),
              text |-> toggleLink(selectedLinks[k])]]

\* The replacements one line contributes: its selected links, rightmost first.
LineReplacements(line, lineIndex, anchor, head) ==
  IF lineIndex < SelStartLine(anchor, head) \/ lineIndex > SelEndLine(anchor, head)
  THEN <<>>
  ELSE LET links == findAllLinksInLine(line)
           selectedLinks ==
             SelectSeq(links, LAMBDA link :
               InSelection(link, lineIndex,
                           SelStartLine(anchor, head), SelEndLine(anchor, head),
                           SelStartCh(anchor, head), SelEndCh(anchor, head)))
           reversed == Reverse(selectedLinks)
       IN [k \in 1..Len(reversed) |->
             [from |-> Pos(lineIndex, reversed[k].startCh),
              to |-> Pos(lineIndex, reversed[k].endCh),
              text |-> toggleLink(reversed[k])]]

\* lines.forEach: the replacements of lines lineIndex.. in push order.
RECURSIVE Replacements(_, _, _, _)
Replacements(lines, lineIndex, anchor, head) ==
  IF lineIndex >= Len(lines) THEN <<>>
  ELSE LineReplacements(lines[lineIndex + 1], lineIndex, anchor, head)
       \o Replacements(lines, lineIndex + 1, anchor, head)

\* replacements.forEach: one replaceRange per replacement on the live buffer.
\* Yields the final buffer and the calls as they were observed.
RECURSIVE ApplyReplacements(_, _, _)
ApplyReplacements(b, reps, log) ==
  IF Len(reps) = 0 THEN [buf |-> b, calls |-> log]
  ELSE LET r == Head(reps)
       IN ApplyReplacements(replaceRange(b, r.text, r.from, r.to), Tail(reps),
                            Append(log, Call(b, r.text, r.from, r.to)))

toggleLinksInSelection(b, anchor, head) ==
  ApplyReplacements(b, Replacements(Split(getValue(b)), 0, anchor, head), <<>>)

----------------------------------------------------------------------------
(* findNearestLink *)

\* for (const link of links) of the forward search, from index j.
RECURSIVE ForwardLinks(_, _, _, _, _)
ForwardLinks(links, j, i, cursorLine, cursorCh) ==
  IF j > Len(links) THEN Null
  ELSE IF i = cursorLine
       THEN IF links[j].startCh >= cursorCh
            THEN [line |-> i, link |-> links[j]]
            ELSE ForwardLinks(links, j + 1, i, cursorLine, cursorCh)
       ELSE [line |-> i, link |-> links[j]]

\* for (let i = cursorLine; i < lines.length; i++)
RECURSIVE ForwardSearch(_, _, _, _)
ForwardSearch(lines, i, cursorLine, cursorCh) ==
  IF i >= Len(lines) THEN Null
  ELSE LET r == ForwardLinks(findAllLinksInLine(lines[i + 1]), 1, i,
                             cursorLine, cursorCh)
       IN IF r # Null THEN r
          ELSE ForwardSearch(lines, i + 1, cursorLine, cursorCh)

\* for (let j = links.length - 1; j >= 0; j--) of the backward search;
\* j is the 1-based index here.
RECURSIVE BackwardLinks(_, _, _, _, _)
BackwardLinks(links, j, i, cursorLine, cursorCh) ==
  IF j < 1 THEN Null
  ELSE IF i = cursorLine
       THEN IF links[j].endCh <= cursorCh
            THEN [line |-> i, link |-> links[j]]
            ELSE BackwardLinks(links, j - 1, i, cursorLine, cursorCh)
       ELSE [line |-> i, link |-> links[j]]

\* for (let i = cursorLine; i >= 0; i--)
RECURSIVE BackwardSearch(_, _, _, _)
BackwardSearch(lines, i, cursorLine, cursorCh) ==
  IF i < 0 THEN Null
  ELSE LET links == findAllLinksInLine(lines[i + 1])
           r == BackwardLinks(links, Len(links), i, cursorLine, cursorCh)
       IN IF r # Null THEN r
          ELSE BackwardSearch(lines, i - 1, cursorLine, cursorCh)

\* findNearestLink searching backward before forward.
MutFindNearestBackwardFirst(b, cursorLine, cursorCh) ==
  LET lines == Split(getValue(b))
      bwd == BackwardSearch(lines, cursorLine, cursorLine, cursorCh)
  IN IF bwd # Null THEN bwd
     ELSE ForwardSearch(lines, cursorLine, cursorLine, cursorCh)

\* findNearestLink without the backward search.
MutFindNearestForwardOnly(b, cursorLine, cursorCh) ==
  ForwardSearch(Split(getValue(b)), cursorLine, cursorLine, cursorCh)

findNearestLink(b, cursorLine, cursorCh) ==
  LET lines == Split(getValue(b))
      fwd == ForwardSearch(lines, cursorLine, cursorLine, cursorCh)
  IN IF fwd # Null THEN fwd
     ELSE BackwardSearch(lines, cursorLine, cursorLine, cursorCh)

----------------------------------------------------------------------------
(* toggleCurrentOrSelected *)

\* The selection test taking a one-character selection for none.
MutHasSelection(b, anchor, head) == Len(getSelection(b, anchor, head)) > 1

\* CASE 1: selection.length > 0
HasSelection(b, anchor, head) == Len(getSelection(b, anchor, head)) > 0

\* getCursor() without argument is the head of the selection.
toggleCurrentOrSelected(b, anchor, head) ==
  IF HasSelection(b, anchor, head)
  THEN toggleLinksInSelection(b, anchor, head)
  ELSE LET cursor == head
           link == findLinkAtCursor(getLine(b, cursor.line), cursor.ch)
       IN IF link # Null
          THEN LET from == Pos(cursor.line, link.startCh)
                   to == Pos(cursor.line, link.endCh)
               IN [buf |-> replaceRange(b, toggleLink(link), from, to),
                   calls |-> <<Call(b, toggleLink(link), from, to)>>]
          ELSE LET nearestLink == findNearestLink(b, cursor.line, cursor.ch)
               IN IF nearestLink # Null
                  THEN LET from == Pos(nearestLink.line, nearestLink.link.startCh)
                           to == Pos(nearestLink.line, nearestLink.link.endCh)
                           toggled == toggleLink(nearestLink.link)
                       IN [buf |-> replaceRange(b, toggled, from, to),
                           calls |-> <<Call(b, toggled, from, to)>>]
                  ELSE [buf |-> b, calls |-> <<>>]

----------------------------------------------------------------------------
(* toggleAllLinks *)

\* matches.forEach over the reversed matches: splice each toggled link into
\* newLine, from index k of the reversed sequence.
RECURSIVE SpliceLinks(_, _, _)
SpliceLinks(newLine, matches, k) ==
  IF k > Len(matches) THEN newLine
  ELSE SpliceLinks(Substring(newLine, 0, matches[k].startCh)
                   \o toggleLink(matches[k])
                   \o SubstringFrom(newLine, matches[k].endCh),
                   matches, k + 1)

\* ToggleLine without the reverse: leftmost link spliced first.
MutToggleLine(line) == SpliceLinks(line, findAllLinksInLine(line), 1)

\* The body of lines.map.
ToggleLine(line) == SpliceLinks(line, Reverse(findAllLinksInLine(line)), 1)

toggleAllLinks(b) ==
  LET lines == Split(getValue(b))
      newLines == [i \in 1..Len(lines) |-> ToggleLine(lines[i])]
      last == lastLine(b)
      lastCh == Len(getLine(b, last))
      modifiedText == Join(newLines)
      from == Pos(0, 0)
      to == Pos(last, lastCh)
  IN [buf |-> replaceRange(b, modifiedText, from, to),
      calls |-> <<Call(b, modifiedText, from, to)>>]

----------------------------------------------------------------------------
(* Inputs *)

LinkTok == <<"[", "[", "a", "]", "]">>
EmbedTok == <<"!", "[", "[", "a", "]", "]">>

\* Lines put together from at most MaxPieces pieces: tokens of both kinds
\* next to stray markers, brackets and plain text.
Pieces == {<<"a">>, <<"!">>, <<"[">>, <<"]">>, LinkTok, EmbedTok}

RECURSIVE LinesOf(_)
LinesOf(k) ==
  IF k = 0 THEN {<<>>}
  ELSE LinesOf(k - 1) \cup {l \o p : l \in LinesOf(k - 1), p \in Pieces}

RichLines == LinesOf(MaxPieces)

\* Documents of up to MaxLines lines and up to MaxTokens tokens: lines with
\* no token, one token and two adjacent tokens.
DocLines == {<<"a">>, LinkTok, LinkTok \o EmbedTok}

RECURSIVE TokenCount(_)
TokenCount(b) ==
  IF Len(b) = 0 THEN 0
  ELSE Len(findAllLinksInLine(Head(b))) + TokenCount(Tail(b))

Docs ==
  {d \in UNION {[1..k -> DocLines] : k \in 1..MaxLines} :
     TokenCount(d) <= MaxTokens}

OneLineDocs == {<<l>> : l \in RichLines}

\* Documents for the cursor: lines with plain text before or after a token.
CursorLines == {<<"a">>, LinkTok \o <<"a", "a">>, <<"a", "a">> \o EmbedTok}

CursorDocs == UNION {[1..k -> CursorLines] : k \in 1..MaxLines}

\* Token texts: "!"? "[[" path "]]" with a path of 1..MaxPathLen characters
\* other than "]", and the two empty-path forms.
PathChars == {"a", "|", " ", "[", "!"}

Paths == UNION {[1..k -> PathChars] : k \in 1..MaxPathLen}

\* The texts of that shape the pattern accepts whole.
Accepted ==
  {r \in {<<"[", "[">> \o p \o <<"]", "]">> : p \in Paths}
          \cup {<<"!", "[", "[">> \o p \o <<"]", "]">> : p \in Paths} :
     MatchAt(r, 0) = Len(r)}

EmptyPathForms == {<<"[", "[", "]", "]">>, <<"!", "[", "[", "]", "]">>}

RawTexts == Accepted \cup EmptyPathForms

----------------------------------------------------------------------------
(* State machine *)

NoOp == [name |-> "none", anchor |-> Pos(0, 0), head |-> Pos(0, 0)]
NoOlder == [name |-> "none", buf |-> <<>>]

InitWith(buffers) ==
  /\ buf \in buffers
  /\ pc = "idle"
  /\ prevBuf = buf
  /\ op = NoOp
  /\ calls = <<>>
  /\ older = NoOlder
  /\ tok = <<>>
  /\ tok0 = <<>>
  /\ n = 0

\* A command ran from buffer buf with result r.
Ran(name, anchor, head, r) ==
  /\ pc' = "done"
  /\ buf' = r.buf
  /\ calls' = r.calls
  /\ prevBuf' = buf
  /\ op' = [name |-> name, anchor |-> anchor, head |-> head]
  /\ older' = IF pc = "done" THEN [name |-> op.name, buf |-> prevBuf]
              ELSE NoOlder
  /\ UNCHANGED <<tok, tok0, n>>

\* Command "toggle-current-or-selected" with the selection the editor reports.
ToggleCurrentOrSelected ==
  /\ pc = "idle"
  /\ \E anchor \in Positions(buf), head \in Positions(buf) :
       Ran("toggleCurrentOrSelected", anchor, head,
           toggleCurrentOrSelected(buf, anchor, head))

\* The same command when nothing is selected: anchor and head coincide.
ToggleAtCursor ==
  /\ pc = "idle"
  /\ \E cursor \in Positions(buf) :
       Ran("toggleCurrentOrSelected", cursor, cursor,
           toggleCurrentOrSelected(buf, cursor, cursor))

\* Command "toggle-all-links".
ToggleAllLinks ==
  /\ pc = "idle"
  /\ Ran("toggleAllLinks", Pos(0, 0), Pos(0, 0), toggleAllLinks(buf))

\* Command "toggle-all-links" invoked again right after itself.
ToggleAllLinksAgain ==
  /\ pc = "done"
  /\ op.name = "toggleAllLinks"
  /\ older = NoOlder
  /\ Ran("toggleAllLinks", Pos(0, 0), Pos(0, 0), toggleAllLinks(buf))

\* The record of the last command is dropped: nothing of a command outlives
\* it, the next one reads the buffer afresh.
Discard ==
  /\ pc = "done"
  /\ pc' = "idle"
  /\ prevBuf' = buf
  /\ op' = NoOp
  /\ calls' = <<>>
  /\ older' = NoOlder
  /\ UNCHANGED <<buf, tok, tok0, n>>

\* parseWikiLink followed by toggleLink on a token text.
ToggleToken ==
  /\ n < MaxToggles
  /\ tok' = toggleLink(parseWikiLink(tok, 0, Len(tok)))
  /\ n' = n + 1
  /\ UNCHANGED <<buf, pc, prevBuf, op, calls, older, tok0>>

\* Documents under both commands, any selection.
Init == InitWith(Docs)
Next == ToggleCurrentOrSelected \/ ToggleAllLinks \/ Discard
Spec == Init /\ [][Next]_vars

\* One-line and multi-line buffers under the cursor command, empty selection.
InitCursor == InitWith(OneLineDocs \cup Docs \cup CursorDocs)
NextCursor == ToggleAtCursor \/ Discard
SpecCursor == InitCursor /\ [][NextCursor]_vars

\* One-line and multi-line buffers under toggle-all, once or twice in a row.
InitAll == InitWith(OneLineDocs \cup Docs)
NextAll == ToggleAllLinks \/ ToggleAllLinksAgain \/ Discard
SpecAll == InitAll /\ [][NextAll]_vars

\* Token texts under parse and toggle.
InitToken ==
  /\ tok0 \in RawTexts
  /\ tok = tok0
  /\ n = 0
  /\ buf = <<<<>>>>
  /\ pc = "idle"
  /\ prevBuf = buf
  /\ op = NoOp
  /\ calls = <<>>
  /\ older = NoOlder
NextToken == ToggleToken
SpecToken == InitToken /\ [][NextToken]_vars

----------------------------------------------------------------------------
(* Vocabulary of the properties *)

\* A token text with its embed marker flipped: an embed token loses the
\* leading "!", a link token gains one.
Flip(rawText) ==
  IF rawText[1] = "!" THEN Tail(rawText) ELSE <<"!">> \o rawText

\* line read left to right from offset pos, with the links whose index is in
\* chosen flipped and every other character kept.
RECURSIVE Rewrite(_, _, _, _, _)
Rewrite(line, links, k, pos, chosen) ==
  IF k > Len(links) THEN SubSeq(line, pos + 1, Len(line))
  ELSE SubSeq(line, pos + 1, links[k].startCh)
       \o (IF k \in chosen THEN Flip(links[k].fullText) ELSE links[k].fullText)
       \o Rewrite(line, links, k + 1, links[k].endCh, chosen)

Tokens(b, l) == findAllLinksInLine(b[l + 1])

HasToken(b) == \E l \in 0..(Len(b) - 1) : Len(Tokens(b, l)) > 0

LineIndexes(b) == 0..(Len(b) - 1)

DidToggleAll == pc = "done" /\ op.name = "toggleAllLinks"

DidToggleCurrent == pc = "done" /\ op.name = "toggleCurrentOrSelected"

\* The last command read an empty selection (a bare cursor).
AtCursor == DidToggleCurrent /\ op.anchor = op.head

\* The last command read a non-empty selection.
WithSelection == DidToggleCurrent /\ op.anchor # op.head

----------------------------------------------------------------------------
(* C7 *)

Parsed(t) == parseWikiLink(t, 0, Len(t))

\* C7: toggling a token text twice gives back the original text exactly, and
\* every single toggle flips hasTransclusion and keeps the path: after k
\* toggles the text is the original one when k is even, the marker differs
\* from the original one exactly when k is odd, and the path is the original.
C7_RoundTrip ==
  /\ (n % 2 = 0) => tok = tok0
  /\ Parsed(tok).hasTransclusion = (Parsed(tok0).hasTransclusion = (n % 2 = 0))
  /\ Parsed(tok).path = Parsed(tok0).path

\* Two toggles applied to an embed token whose path has a "[" and a "|".
C7_Witness ==
  /\ n = 2
  /\ tok0 = <<"!", "[", "[", "[", "|", "]", "]">>
  /\ tok = tok0

----------------------------------------------------------------------------
(* C4 *)

AllIndexes(links) == 1..Len(links)

\* C4: toggle-all keeps the number of lines, rewrites each line to the
\* original line with every token flipped and every other character kept, and
\* writes the result with one replaceRange from (0, 0) to the end of the last
\* line.
C4_ToggleAllExact ==
  DidToggleAll =>
    /\ Len(buf) = Len(prevBuf)
    /\ \A l \in LineIndexes(prevBuf) :
         buf[l + 1] = Rewrite(prevBuf[l + 1], Tokens(prevBuf, l), 1, 0,
                              AllIndexes(Tokens(prevBuf, l)))
    /\ Len(calls) = 1
    /\ calls[1].from = Pos(0, 0)
    /\ calls[1].to = Pos(Len(prevBuf) - 1, Len(prevBuf[Len(prevBuf)]))
    /\ calls[1].was = Join(prevBuf)
    /\ Split(calls[1].text) = buf

\* Toggle-all ran on a buffer of several lines, one of them with an embed
\* token and a link token.
C4_Witness ==
  /\ DidToggleAll
  /\ Len(prevBuf) >= 2
  /\ \E l \in LineIndexes(prevBuf) :
       /\ prevBuf[l + 1] = LinkTok \o EmbedTok
       /\ buf[l + 1] = EmbedTok \o LinkTok

----------------------------------------------------------------------------
(* C9 *)

DidToggleAllTwice == DidToggleAll /\ older.name = "toggleAllLinks"

\* An embed token of line directly preceded by "!" or "[".
FusingLine(line) ==
  \E k \in 1..Len(findAllLinksInLine(line)) :
    LET link == findAllLinksInLine(line)[k]
    IN /\ link.hasTransclusion
       /\ link.startCh > 0
       /\ line[link.startCh] \in {"!", "["}

NoFusing(b) == \A l \in LineIndexes(b) : ~FusingLine(b[l + 1])

\* C9 as stated: two toggle-all commands in a row restore every buffer.
C9_Original == DidToggleAllTwice => buf = older.buf

\* C9: two toggle-all commands in a row restore every buffer in which no
\* embed token is directly preceded by a "!" or a "[".
C9_TwiceRestores ==
  (DidToggleAllTwice /\ NoFusing(older.buf)) => buf = older.buf

\* Toggle-all ran twice on a line with a stray "!", a link and an embed token.
C9_Witness ==
  /\ DidToggleAllTwice
  /\ older.buf = <<(<<"!">> \o LinkTok \o EmbedTok)>>
  /\ prevBuf # buf
  /\ buf = older.buf

----------------------------------------------------------------------------
(* Selection toggling: C1, C2, C3, C6 *)

\* The buffer b with the tokens picked by chosen(l, link) flipped at once.
FlippedAtOnce(b, chosen(_, _)) ==
  [i \in 1..Len(b) |->
     Rewrite(b[i], Tokens(b, i - 1), 1, 0,
             {k \in 1..Len(Tokens(b, i - 1)) : chosen(i - 1, Tokens(b, i - 1)[k])})]

\* The tokens a selection from start to end (start before end, on different
\* lines) covers: from start.ch on on the first line, up to end.ch on the
\* last line, all of them in between.
Covered(l, link, start, end) ==
  \/ l = start.line /\ link.startCh >= start.ch
  \/ l = end.line /\ link.endCh <= end.ch
  \/ l > start.line /\ l < end.line

\* C1 as stated: a selection over several lines with the anchor first toggles
\* exactly the tokens it covers; a token of the last line that ends after
\* head.ch is left alone.
C1_MultiLineExact ==
  (WithSelection /\ op.anchor.line < op.head.line) =>
    buf = FlippedAtOnce(prevBuf,
                        LAMBDA l, link : Covered(l, link, op.anchor, op.head))

\* C2 as stated: the two endpoints are interchangeable, the command gives the
\* same buffer with anchor and head swapped.
C2_EndpointSymmetry ==
  WithSelection =>
    buf = toggleLinksInSelection(prevBuf, op.head, op.anchor).buf

\* The token call c of the last command targets in the original buffer.
IsTargetOf(c, l, link) ==
  c.from = Pos(l, link.startCh) /\ c.to = Pos(l, link.endCh)

Targeted(l, link) == \E k \in 1..Len(calls) : IsTargetOf(calls[k], l, link)

\* C3: selection toggling issues its calls lines ascending and rightmost first
\* within a line; each call finds in its range the original text of a token of
\* the original buffer and writes that token flipped; the final buffer is the
\* original one with the targeted tokens flipped at once.
C3_LiveOffsetsValid ==
  WithSelection =>
    /\ \A k \in 1..Len(calls) :
         \E l \in LineIndexes(prevBuf) :
           \E j \in 1..Len(Tokens(prevBuf, l)) :
             LET link == Tokens(prevBuf, l)[j]
             IN /\ IsTargetOf(calls[k], l, link)
                /\ calls[k].was = link.fullText
                /\ calls[k].text = Flip(link.fullText)
    /\ \A k \in 1..Len(calls) : \A m \in 1..Len(calls) :
         k < m => \/ calls[k].from.line < calls[m].from.line
                  \/ /\ calls[k].from.line = calls[m].from.line
                     /\ calls[k].from.ch > calls[m].from.ch
    /\ buf = FlippedAtOnce(prevBuf, Targeted)

\* A selection toggled two tokens of one line and a token of another line.
C3_Witness ==
  /\ WithSelection
  /\ Len(calls) >= 3
  /\ \E k \in 1..(Len(calls) - 1) :
       /\ calls[k].from.line = calls[k + 1].from.line
       /\ calls[k].text = LinkTok
       /\ calls[k + 1].text = EmbedTok
  /\ calls[1].from.line # calls[Len(calls)].from.line

\* The bounds toggleLinksInSelection applies to the links of line l.
InBounds(l, link) ==
  /\ l >= SelStartLine(op.anchor, op.head)
  /\ l <= SelEndLine(op.anchor, op.head)
  /\ InSelection(link, l,
                 SelStartLine(op.anchor, op.head), SelEndLine(op.anchor, op.head),
                 SelStartCh(op.anchor, op.head), SelEndCh(op.anchor, op.head))

NoneInBounds ==
  \A l \in LineIndexes(prevBuf) : \A j \in 1..Len(Tokens(prevBuf, l)) :
    ~InBounds(l, Tokens(prevBuf, l)[j])

\* C6: with a non-empty selection the command toggles the tokens within the
\* selection bounds and nothing else; when no token is within the bounds it
\* issues no call and leaves the buffer as it was, wherever the cursor is.
C6_SelectionOnly ==
  WithSelection =>
    /\ \A l \in LineIndexes(prevBuf) : \A j \in 1..Len(Tokens(prevBuf, l)) :
         Targeted(l, Tokens(prevBuf, l)[j]) <=> InBounds(l, Tokens(prevBuf, l)[j])
    /\ NoneInBounds => (calls = <<>> /\ buf = prevBuf)

\* A non-empty selection inside a token: the cursor (head) is on the token,
\* no token is within the bounds, the buffer is unchanged.
C6_Witness ==
  /\ WithSelection
  /\ NoneInBounds
  /\ findLinkAtCursor(prevBuf[op.head.line + 1], op.head.ch) # Null
  /\ HasToken(prevBuf)
  /\ buf = prevBuf
  /\ calls = <<>>

----------------------------------------------------------------------------
(* Cursor toggling: C5, C8, C10 *)

\* The tokens of buffer b as pairs <<line, index in the line>>.
TokenIds(b) ==
  UNION {{<<l, j>> : j \in 1..Len(Tokens(b, l))} : l \in LineIndexes(b)}

TokenOf(b, id) == Tokens(b, id[1])[id[2]]

\* Document order of tokens.
IdLess(a, b) == a[1] < b[1] \/ (a[1] = b[1] /\ a[2] < b[2])

\* The cursor of the last command lies in the closed range of token id.
CursorIn(id) ==
  /\ id[1] = op.head.line
  /\ TokenOf(prevBuf, id).startCh <= op.head.ch
  /\ op.head.ch <= TokenOf(prevBuf, id).endCh

CursorInNone == \A id \in TokenIds(prevBuf) : ~CursorIn(id)

\* Tokens at or after the cursor, and tokens before it.
AtOrAfter ==
  {id \in TokenIds(prevBuf) :
     \/ id[1] > op.head.line
     \/ id[1] = op.head.line /\ TokenOf(prevBuf, id).startCh >= op.head.ch}

Before ==
  {id \in TokenIds(prevBuf) :
     \/ id[1] < op.head.line
     \/ id[1] = op.head.line /\ TokenOf(prevBuf, id).endCh <= op.head.ch}

First(ids) == CHOOSE a \in ids : \A b \in ids : a = b \/ IdLess(a, b)
Last(ids) == CHOOSE a \in ids : \A b \in ids : a = b \/ IdLess(b, a)

\* The last command issued exactly one call, on token id, writing it flipped.
ToggledOnly(id) ==
  /\ Len(calls) = 1
  /\ IsTargetOf(calls[1], id[1], TokenOf(prevBuf, id))
  /\ calls[1].text = Flip(TokenOf(prevBuf, id).fullText)
  /\ buf = FlippedAtOnce(prevBuf,
                         LAMBDA l, link : l = id[1] /\ link = TokenOf(prevBuf, id))

\* C5: with the cursor inside no token, the token toggled is the first one at
\* or after the cursor whenever there is one, however close a token before
\* the cursor is; the last token before the cursor is taken only when there is
\* none at or after it.
C5_ForwardFirst ==
  (AtCursor /\ CursorInNone) =>
    /\ AtOrAfter # {} => ToggledOnly(First(AtOrAfter))
    /\ (AtOrAfter = {} /\ Before # {}) => ToggledOnly(Last(Before))

\* The cursor sits right behind a token of its line and the only token after
\* it is on a later line: the later one is toggled.
C5_Witness ==
  /\ AtCursor
  /\ CursorInNone
  /\ \E id \in Before :
       id[1] = op.head.line /\ TokenOf(prevBuf, id).endCh = op.head.ch - 1
  /\ AtOrAfter # {}
  /\ First(AtOrAfter)[1] > op.head.line
  /\ ToggledOnly(First(AtOrAfter))

\* C8: a cursor within the closed range of a token of its line toggles the
\* leftmost such token, by one call that replaces exactly its range.
C8_ClosedInterval ==
  (AtCursor /\ ~CursorInNone) =>
    ToggledOnly(First({id \in TokenIds(prevBuf) : CursorIn(id)}))

\* The cursor is on the boundary two adjacent tokens share; the left one is
\* toggled.
C8_Witness ==
  /\ AtCursor
  /\ \E a \in TokenIds(prevBuf) : \E b \in TokenIds(prevBuf) :
       /\ CursorIn(a) /\ CursorIn(b) /\ IdLess(a, b)
       /\ TokenOf(prevBuf, a).endCh = op.head.ch
       /\ TokenOf(prevBuf, b).startCh = op.head.ch
       /\ ToggledOnly(a)

\* C10: with an empty selection the command leaves the buffer unchanged and
\* issues no call exactly when the buffer has no token; otherwise it toggles
\* exactly one token.
C10_NoOpIffNoToken ==
  AtCursor =>
    /\ (buf = prevBuf) <=> ~HasToken(prevBuf)
    /\ (calls = <<>>) <=> ~HasToken(prevBuf)
    /\ HasToken(prevBuf) => \E id \in TokenIds(prevBuf) : ToggledOnly(id)

\* The only tokens are before the cursor, none on its line; one is toggled.
C10_Witness ==
  /\ AtCursor
  /\ AtOrAfter = {}
  /\ Before # {}
  /\ \A id \in Before : id[1] < op.head.line
  /\ Len(calls) = 1
  /\ buf # prevBuf

====
